---- MODULE Spec2Model ----
(***************************************************************************)
(* State-machine model of the SkyPortal annotation handlers:               *)
(*   skyportal/handlers/api/classification.py  (ClassificationHandler)     *)
(*   skyportal/handlers/api/comment.py         (users_mentioned,           *)
(*                                               CommentHandler,           *)
(*                                               CommentAttachmentHandler) *)
(*   skyportal/handlers/api/db_stats.py        (StatsHandler)              *)
(*                                                                         *)
(* Each handler runs to completion inside one database session: an action  *)
(* takes a request, runs its handler and leaves the request, the response  *)
(* and the effects issued (commit, push_all, flow.push, in issue order)    *)
(* in the state until the response is returned (Respond).  A handler's     *)
(* writes reach the store only through session.commit(); leaving the       *)
(* session without a commit discards them.                                 *)
(*                                                                         *)
(* Probabilities are modelled in tenths: 10 stands for 1.0, -1 for -0.1.   *)
(* A nullable value is <<>> (None) or <<v>>.                               *)
(***************************************************************************)
EXTENDS Integers, Sequences, FiniteSets, TLC

VARIABLES
    classifications,      \* persisted Classification rows (a set of records)
    nextClassificationId, \* next primary key of the classifications table
    comments,             \* persisted Comment rows of the four variants
    nextCommentId,        \* next primary key of the comment tables
    notifications,        \* persisted UserNotification rows (a sequence)
    req,                  \* the request just handled, or NoReq when idle
    resp,                 \* its response
    events,               \* the effects it issued, in order
    mentionText,          \* input of the mention tokenizer (SpecMention)
    mentionNames,         \* None, or Some(the candidate usernames, in order)
    sessions,             \* the database sessions the request opened, in order
    listing,              \* None, or Some(a listing between its two queries)
    cronJobRuns           \* persisted CronJobRun rows (SpecStats)

vars == <<classifications, nextClassificationId, comments, nextCommentId,
          notifications, req, resp, events, mentionText, mentionNames,
          sessions, listing, cronJobRuns>>

classificationStore == <<classifications, nextClassificationId>>
commentStore == <<comments, nextCommentId, notifications>>
mentionVars == <<mentionText, mentionNames>>

(***************************************************************************)
(* Bounds of the model.                                                    *)
(***************************************************************************)
MaxRows == 1              \* classification and comment rows ever created
MaxTextLen == 4           \* characters of a tokenizer input
TaxDepth == 2             \* depth of the node paths the claims enumerate
TaxBranch == 2
MaxCronRuns == 2            \* child indices of the node paths

(***************************************************************************)
(* Program constants.                                                      *)
(***************************************************************************)
DEFAULT_CLASSIFICATIONS_PER_PAGE == 100
MAX_CLASSIFICATIONS_PER_PAGE == 500

None == <<>>
Some(v) == <<v>>
Range(s) == {s[i] : i \in DOMAIN s}
Min(a, b) == IF a < b THEN a ELSE b

NoReq == [op |-> "none"]
NoResp == [status |-> "none", code |-> 0, msg |-> "", data |-> <<>>]

(***************************************************************************)
(* Reference data, read-only for these handlers.                           *)
(***************************************************************************)
Users == {"alice", "bob"}
GroupIds == {1, 2}

\* current_user.accessible_groups: alice is in group 1, bob in both
AccessibleGroupIds(user) == IF user = "alice" THEN {1} ELSE {1, 2}

\* Mutant of SelectGroups: every requested group is found.
SelectGroups_unfiltered(user, group_ids) == group_ids \cap GroupIds

\* Group.select(current_user).where(Group.id.in_(group_ids))
SelectGroups(user, group_ids) == group_ids \cap AccessibleGroupIds(user)

Objs == {"ZTF1"}
\* obj.internal_key
InternalKey(obj_id) == <<"key", obj_id>>

\* The one stored taxonomy.  Classes: A (root), B (depth 1), C (depth 2),
\* D (depth 2, below a node that has no `class`).
TaxonomyIds == {1}
Hierarchy(taxonomy_id) ==
    [class |-> "A",
     subclasses |-> << [class |-> "B", subclasses |-> << [class |-> "C"] >>],
                       [subclasses |-> << [class |-> "D"] >>] >>]

\* Taxonomy.select(user).where(Taxonomy.id == taxonomy_id).first()
SelectTaxonomy(user, taxonomy_id) ==
    IF taxonomy_id \in TaxonomyIds THEN Some(Hierarchy(taxonomy_id)) ELSE None

(***************************************************************************)
(* Responses and effects.                                                  *)
(***************************************************************************)
Success(data) == [status |-> "success", code |-> 200, msg |-> "", data |-> data]
Error(msg, code) == [status |-> "error", code |-> code, msg |-> msg, data |-> <<>>]
\* an exception no handler catches: the framework answers 500
Exception(msg) == [status |-> "exception", code |-> 500, msg |-> msg, data |-> <<>>]

\* `with self.Session() as session:`, the session bound to the request's
\* user, closed when the block is left; DBSession() is the module-level factory
RequestSession == "self.Session"
ModuleSession == "DBSession"

Commit == [type |-> "commit", action |-> "", payload |-> <<>>]
PushAll(action, payload) == [type |-> "push_all", action |-> action, payload |-> payload]
Push(user, action) == [type |-> "push", action |-> action, payload |-> <<user>>]

\* what a handler leaves behind: the store it committed (or the one it
\* found), its response, its effects
Outcome(store, response, effects) ==
    [store |-> store, resp |-> response, events |-> effects]

(***************************************************************************)
(* Row-level access (the framework's accessibility-filtered select).       *)
(* read: the caller shares a group with the row; update and delete: the    *)
(* caller is the row's author.                                             *)
(***************************************************************************)
Accessible(user, row, mode) ==
    IF mode = "read"
    THEN row.groups \cap AccessibleGroupIds(user) # {}
    ELSE row.author = user

\* <Model>.select(user, mode).where(<Model>.id == id).first()
SelectById(rows, user, id, mode) ==
    LET found == {c \in rows : c.id = id /\ Accessible(user, c, mode)}
    IN IF found = {} THEN None ELSE Some(CHOOSE c \in found : TRUE)

\* rows in primary-key order
RECURSIVE SortById(_)
SortById(rows) ==
    IF rows = {} THEN <<>>
    ELSE LET first == CHOOSE c \in rows : \A d \in rows : c.id <= d.id
         IN <<first>> \o SortById(rows \ {first})

(***************************************************************************)
(* ClassificationHandler                                                   *)
(***************************************************************************)

\* Mutant of allowed_classes: yields each item's own class instead of
\* recursing into it, so classes below depth 1 are missed.
allowed_classes_one_level(hierarchy) ==
    (IF "class" \in DOMAIN hierarchy THEN <<hierarchy.class>> ELSE <<>>)
    \o (IF "subclasses" \in DOMAIN hierarchy
        THEN LET items == hierarchy.subclasses
                 withClass == SelectSeq(items, LAMBDA item : "class" \in DOMAIN item)
             IN [i \in DOMAIN withClass |-> withClass[i].class]
        ELSE <<>>)

\* allowed_classes(hierarchy): the generator's output, in order
RECURSIVE allowed_classes(_), allowed_classes_of_items(_)
allowed_classes(hierarchy) ==
    (IF "class" \in DOMAIN hierarchy THEN <<hierarchy.class>> ELSE <<>>)
    \o (IF "subclasses" \in DOMAIN hierarchy
        THEN allowed_classes_of_items(hierarchy.subclasses)
        ELSE <<>>)
allowed_classes_of_items(items) ==
    IF items = <<>> THEN <<>>
    ELSE allowed_classes(Head(items)) \o allowed_classes_of_items(Tail(items))

\* Mutant of ProbabilityOutOfRange: the bounds themselves are refused.
ProbabilityOutOfRange_strict(probability) ==
    probability # None /\ (probability[1] <= 0 \/ probability[1] >= 10)

\* probability < 0 or probability > 1
ProbabilityOutOfRange(probability) ==
    probability # None /\ (probability[1] < 0 \/ probability[1] > 10)

\* the two broadcasts every classification mutation ends with
ClassificationRefresh_source_only(obj_key) ==
    << PushAll("skyportal/REFRESH_SOURCE", obj_key) >>

ClassificationRefresh(obj_key) ==
    << PushAll("skyportal/REFRESH_SOURCE", obj_key),
       PushAll("skyportal/REFRESH_CANDIDATE", obj_key) >>

\* an effect list may end in an exception raised while the effects are issued
Raise(msg) == [type |-> "raise", action |-> msg, payload |-> <<>>]
Raises(effects) == {i \in DOMAIN effects : effects[i].type = "raise"}
FirstRaise(effects) == CHOOSE i \in Raises(effects) : \A j \in Raises(effects) : i <= j

\* Mutant of CommitThen: the effects are issued before the commit is tried.
CommitThen_push_first(commitOk, old, new, response, effects) ==
    IF ~commitOk
    THEN Outcome(old, Exception("commit failed"), effects)
    ELSE Outcome(new, response, effects \o <<Commit>>)

\* session.commit() and what follows it.  A failing commit raises: the
\* session is left and nothing of it is kept.  After a commit the effects
\* are issued in order up to the first that raises.
CommitThen(commitOk, old, new, response, effects) ==
    IF ~commitOk
    THEN Outcome(old, Exception("commit failed"), <<>>)
    ELSE IF Raises(effects) # {}
    THEN Outcome(new, Exception(effects[FirstRaise(effects)].action),
                 <<Commit>> \o SubSeq(effects, 1, FirstRaise(effects) - 1))
    ELSE Outcome(new, response, <<Commit>> \o effects)

\* ClassificationHandler.post
PopGroupIds_default_when_empty(arg, default) ==
    IF arg.present /\ arg.ids # {} THEN arg.ids ELSE default

\* data.pop("group_ids", user_group_ids): the default only when the key is absent
PopGroupIds(arg, default) ==
    IF arg.present THEN arg.ids ELSE default

ClassificationPost(r, commitOk) ==
    LET old == classificationStore
        user_group_ids == AccessibleGroupIds(r.user)
        group_ids == PopGroupIds(r.group_ids, user_group_ids)
        taxonomy == SelectTaxonomy(r.user, r.taxonomy_id)
        groups == SelectGroups(r.user, group_ids)
        classification ==
            [id |-> nextClassificationId,
             classification |-> r.classification,
             obj_id |-> r.obj_id,
             probability |-> r.probability,
             taxonomy_id |-> r.taxonomy_id,
             author |-> r.user,
             groups |-> groups]
    IN IF taxonomy = None
       THEN Outcome(old, Error("Cannot find a taxonomy", 400), <<>>)
       ELSE IF r.classification \notin Range(allowed_classes(taxonomy[1]))
       THEN Outcome(old, Error("not in the allowed classes", 400), <<>>)
       ELSE IF ProbabilityOutOfRange(r.probability)
       THEN Outcome(old, Error("outside the allowable range", 400), <<>>)
       ELSE IF groups # group_ids
       THEN Outcome(old, Error("Cannot find one or more groups", 400), <<>>)
       ELSE CommitThen(commitOk, old,
                <<classifications \cup {classification}, nextClassificationId + 1>>,
                Success(classification.id),
                ClassificationRefresh(InternalKey(classification.obj_id)))

\* Classification.__schema__().load(data, partial=True): a key that is no
\* field of the entity raises ValidationError
ClassificationFields == {"id", "classification", "obj_id", "probability", "taxonomy_id"}
SchemaLoad(data, fields) == DOMAIN data \subseteq fields

\* for k in data: setattr(c, k, data[k])
SetAttrs(c, data) ==
    [c EXCEPT
        !.classification = IF "classification" \in DOMAIN data THEN data.classification ELSE @,
        !.probability = IF "probability" \in DOMAIN data THEN data.probability ELSE @]

\* ClassificationHandler.put
ClassificationPut(r, commitOk) ==
    LET old == classificationStore
        found == SelectById(classifications, r.user, r.classification_id, "update")
        c == found[1]
        patched == SetAttrs(c, r.data)
        groups == SelectGroups(r.user, r.group_ids.ids)
        updated == IF r.group_ids.present THEN [patched EXCEPT !.groups = groups]
                   ELSE patched
    IN IF found = None
       THEN Outcome(old, Error("Cannot find a classification", 400), <<>>)
       ELSE IF ~SchemaLoad(r.data, ClassificationFields)
       THEN Outcome(old, Error("Invalid/missing parameters", 400), <<>>)
       ELSE IF r.group_ids.present /\ groups # r.group_ids.ids
       THEN Outcome(old, Error("Cannot find one or more groups", 400), <<>>)
       ELSE CommitThen(commitOk, old,
                <<(classifications \ {c}) \cup {updated}, nextClassificationId>>,
                Success(<<>>),
                ClassificationRefresh(InternalKey(c.obj_id)))

\* Mutant of ClassificationDelete: the row is selected with read rights.
ClassificationDelete_read_rights(r, commitOk) ==
    LET old == classificationStore
        found == SelectById(classifications, r.user, r.classification_id, "read")
        c == found[1]
        obj_key == InternalKey(c.obj_id)
    IN IF found = None
       THEN Outcome(old, Error("Cannot find a classification", 400), <<>>)
       ELSE CommitThen(commitOk, old,
                <<classifications \ {c}, nextClassificationId>>,
                Success(<<>>),
                ClassificationRefresh(obj_key))

\* ClassificationHandler.delete
ClassificationDelete(r, commitOk) ==
    LET old == classificationStore
        found == SelectById(classifications, r.user, r.classification_id, "delete")
        c == found[1]
        obj_key == InternalKey(c.obj_id)
    IN IF found = None
       THEN Outcome(old, Error("Cannot find a classification", 400), <<>>)
       ELSE CommitThen(commitOk, old,
                <<classifications \ {c}, nextClassificationId>>,
                Success(<<>>),
                ClassificationRefresh(obj_key))

\* ClassificationHandler.get with a classification_id
ClassificationGet(r) ==
    LET old == classificationStore
        classification == SelectById(classifications, r.user, r.classification_id, "read")
    IN IF classification = None
       THEN Outcome(old, Error("Cannot find classification", 400), <<>>)
       ELSE Outcome(old, Success(classification[1]), <<>>)

\* page_number = self.get_query_argument('pageNumber', 1): the query
\* string's text when the parameter is given, the integer 1 when it is not
PageNumberArgument(r) ==
    IF r.pageNumber.present THEN [type |-> "str", val |-> r.pageNumber.val]
    ELSE [type |-> "int", val |-> 1]

\* n_per_page = min(int(get_query_argument("numPerPage", DEFAULT)), MAX)
NPerPage(r) ==
    Min(IF r.numPerPage.present THEN r.numPerPage.val
        ELSE DEFAULT_CLASSIFICATIONS_PER_PAGE,
        MAX_CLASSIFICATIONS_PER_PAGE)

\* .limit(n).offset(k) over the matches
LimitOffset(matches, n, k) ==
    SubSeq(matches, k + 1, Min(Len(matches), k + n))

\* ClassificationHandler.get, the collection: (page_number - 1) raises
\* TypeError when page_number is a str
ClassificationList(r) ==
    LET old == classificationStore
        page_number == PageNumberArgument(r)
        n_per_page == NPerPage(r)
        matches == SortById({c \in classifications : Accessible(r.user, c, "read")})
        total_matches == Len(matches)
    IN IF page_number.type # "int"
       THEN Outcome(old, Exception("TypeError"), <<>>)
       ELSE Outcome(old,
                Success([classifications |->
                             LimitOffset(matches, n_per_page,
                                         (page_number.val - 1) * n_per_page),
                         totalMatches |-> total_matches]),
                <<>>)

\* The same handler as two statements of one session under READ COMMITTED,
\* each reading the rows committed when it runs.
\* session.execute(count_stmt).scalar(), lines 134-135: the handler's locals
\* after the count (`seen` records the rows the statement read)
CountQuery(r, rows) ==
    [request |-> r,
     seen |-> rows,
     total_matches |-> Cardinality({c \in rows : Accessible(r.user, c, "read")})]

PageQueryRows_count_snapshot(l, rows) == l.seen

\* the rows the page statement reads: the ones committed when it runs
PageQueryRows(l, rows) == rows

\* lines 136-144: the page statement and the response
PageQuery(l, rows) ==
    LET r == l.request
        page_number == PageNumberArgument(r)
        n_per_page == NPerPage(r)
        matches == SortById({c \in PageQueryRows(l, rows) :
                                Accessible(r.user, c, "read")})
    IN IF page_number.type # "int"
       THEN Exception("TypeError")
       ELSE Success([classifications |->
                         LimitOffset(matches, n_per_page,
                                     (page_number.val - 1) * n_per_page),
                     totalMatches |-> l.total_matches])

(***************************************************************************)
(* users_mentioned: the tokenizer.  A text is a sequence of characters.    *)
(***************************************************************************)
\* string.punctuation (without the double quote and the backquote, which
\* no modelled text contains)
StringPunctuation ==
    {"!", "#", "$", "%", "&", "'", "(", ")", "*", "+", ",", "-", ".", "/",
     ":", ";", "<", "=", ">", "?", "@", "[", "\\", "]", "^", "_", "{", "|",
     "}", "~"}
\* string.punctuation.replace("-", "").replace("@", "")
MentionPunctuation == StringPunctuation \ {"-", "@"}
Whitespace == {" "}

\* s.replace(old, new) for single characters
ReplaceChar(s, old, new) == [i \in DOMAIN s |-> IF s[i] = old THEN new ELSE s[i]]

\* s.replace(old, "") for a single character
RECURSIVE RemoveChar(_, _)
RemoveChar(s, old) ==
    IF s = <<>> THEN <<>>
    ELSE (IF Head(s) = old THEN <<>> ELSE <<Head(s)>>) \o RemoveChar(Tail(s), old)

\* s.split(): the maximal runs of non-whitespace characters
RECURSIVE SplitFrom(_, _)
SplitFrom(s, word) ==
    IF s = <<>> THEN (IF word = <<>> THEN <<>> ELSE <<word>>)
    ELSE IF Head(s) \in Whitespace
    THEN (IF word = <<>> THEN <<>> ELSE <<word>>) \o SplitFrom(Tail(s), <<>>)
    ELSE SplitFrom(Tail(s), Append(word, Head(s)))
Split(s) == SplitFrom(s, <<>>)

\* word.strip(chars)
RECURSIVE LStrip(_, _), RStrip(_, _)
LStrip(word, chars) ==
    IF word # <<>> /\ Head(word) \in chars THEN LStrip(Tail(word), chars) ELSE word
RStrip(word, chars) ==
    IF word # <<>> /\ word[Len(word)] \in chars
    THEN RStrip(SubSeq(word, 1, Len(word) - 1), chars)
    ELSE word
Strip(word, chars) == RStrip(LStrip(word, chars), chars)

StartsWith(word, ch) == word # <<>> /\ Head(word) = ch

\* the loop of users_mentioned over the words, appending to usernames
RECURSIVE MentionLoop(_)
MentionLoop(words) ==
    IF words = <<>> THEN <<>>
    ELSE LET word == Strip(Head(words), MentionPunctuation)
         IN (IF StartsWith(word, "@") THEN <<RemoveChar(word, "@")>> ELSE <<>>)
            \o MentionLoop(Tail(words))

\* users_mentioned, lines 29-34: the candidate usernames
MentionedUsernames(text) == MentionLoop(Split(ReplaceChar(text, ",", " ")))

\* the User directory: username and preferences.notifications.mention.active
AllUsers == {"alice", "bob", "carol", "dave"}
Username(user) ==
    CASE user = "alice" -> <<"a">>
      [] user = "bob" -> <<"b">>
      [] user = "carol" -> <<"c">>
      [] OTHER -> <<"d">>
MentionActive(user) == user # "carol"

\* User.select(session.user_or_token): the users the caller may see; dave
\* is visible to bob only
UserVisible(caller, user) == user # "dave" \/ caller = "bob"

\* Mutant of users_mentioned: the mention preference is not looked at.
users_mentioned_any_preference(text, caller) ==
    {u \in AllUsers : /\ UserVisible(caller, u)
                      /\ Username(u) \in Range(MentionedUsernames(text))}

\* users_mentioned, lines 35-44: User.select(...).where(username in
\* usernames, mention.active is True).all()
users_mentioned(text, caller) ==
    {u \in AllUsers : /\ UserVisible(caller, u)
                      /\ Username(u) \in Range(MentionedUsernames(text))
                      /\ MentionActive(u)}

\* a fixed order for a result set
RECURSIVE SetToSeq(_)
SetToSeq(set) ==
    IF set = {} THEN <<>>
    ELSE LET x == CHOOSE y \in set : TRUE IN <<x>> \o SetToSeq(set \ {x})

(***************************************************************************)
(* CommentHandler                                                          *)
(***************************************************************************)
Kinds == {"sources", "spectra", "gcn_event", "shift"}

\* associated_resource_type.lower()
Lower(type) ==
    CASE type = "Spectra" -> "spectra"
      [] OTHER -> type

\* ids travel in the path as text and are stored as integers
ParseId(text) == CASE text = "1" -> 1 [] text = "2" -> 2 [] OTHER -> 999
Str(id) == CASE id = 1 -> "1" [] id = 2 -> "2" [] OTHER -> "999"

\* the stored spectrum, GCN event and shift (each visible to every user)
SpectrumIds == {1}
SpectrumObjId(spectrum_id) == "ZTF1"
GcnEventIds == {1}
Dateobs(gcn_id) == <<"dateobs", gcn_id>>
ShiftIds == {1}

\* hasattr(comment, 'obj'): Comment and CommentOnSpectrum resolve to an
\* owning Obj; CommentOnGCN and CommentOnShift have no such attribute
HasObj(kind) == kind \in {"sources", "spectra"}

\* Mutant of CommentResourceIdStr: the object id is read for every variant.
CommentResourceIdStr_obj_id(c) == c.obj_id

\* str(c.obj_id), str(c.spectrum_id), str(c.gcn_id), str(c.shift_id)
CommentResourceIdStr(c) == IF c.kind = "sources" THEN c.obj_id ELSE Str(c.ref_id)

\* body.split('base64,')[-1] over a body given as a sequence of tokens
RECURSIVE AfterLastBase64(_)
AfterLastBase64(body) ==
    IF \E i \in DOMAIN body : body[i] = "base64,"
    THEN AfterLastBase64(Tail(body))
    ELSE body

\* the foreign keys of the row to insert hold in the store
ForeignKeysHold(c) == c.kind # "sources" \/ c.obj_id \in Objs

\* Mutant of CommentPostRefresh: the variant-specific broadcast is sent
\* only for a comment that has an `obj`.
CommentPostRefresh_under_obj(c) ==
    IF HasObj(c.kind)
    THEN <<PushAll("skyportal/REFRESH_SOURCE", InternalKey(c.obj_id))>>
         \o (CASE c.kind = "gcn_event" ->
                    <<PushAll("skyportal/REFRESH_GCNEVENT", Dateobs(c.ref_id))>>
               [] c.kind = "spectra" ->
                    <<PushAll("skyportal/REFRESH_SOURCE_SPECTRA", InternalKey(c.obj_id))>>
               [] c.kind = "shift" ->
                    <<PushAll("skyportal/REFRESH_SHIFTS", <<"shift_id", c.ref_id>>)>>
               [] OTHER -> <<>>)
    ELSE <<>>

\* the refresh broadcasts after creating a comment (lines 475-497)
CommentPostRefresh(c) ==
    (IF HasObj(c.kind)
     THEN <<PushAll("skyportal/REFRESH_SOURCE", InternalKey(c.obj_id))>>
     ELSE <<>>)
    \o (CASE c.kind = "gcn_event" ->
               <<PushAll("skyportal/REFRESH_GCNEVENT", Dateobs(c.ref_id))>>
          [] c.kind = "spectra" ->
               <<PushAll("skyportal/REFRESH_SOURCE_SPECTRA", InternalKey(c.obj_id))>>
          [] c.kind = "shift" ->
               <<PushAll("skyportal/REFRESH_SHIFTS", <<"shift_id", c.ref_id>>)>>
          [] OTHER -> <<>>)

\* flow.push(user.id, "skyportal/FETCH_NOTIFICATIONS", {}) per mentioned user
MentionPushes(users) ==
    [i \in DOMAIN users |-> Push(users[i], "skyportal/FETCH_NOTIFICATIONS")]

\* UserNotification(user=..., text=..., notification_type="mention", url=...)
MentionNotifications(users, author, url) ==
    [i \in DOMAIN users |->
        [user |-> users[i], notification_type |-> "mention",
         author |-> author, url |-> url]]

\* url_endpoint, lines 439-450
UrlEndpoint(kind, resource_id) ==
    CASE kind = "sources" -> <<"/source/", resource_id>>
      [] kind = "spectra" -> <<"/source/", resource_id>>
      [] kind = "gcn_event" -> <<"/gcn_events/", resource_id>>
      [] OTHER -> <<"/shifts">>

\* Mutant of WellFormedAttachment: one of the two keys is enough.
WellFormedAttachment_either(attachment) ==
    "body" \in DOMAIN attachment \/ "name" \in DOMAIN attachment

\* isinstance(attachment, dict) and 'body' in attachment and 'name' in attachment
WellFormedAttachment(attachment) ==
    "body" \in DOMAIN attachment /\ "name" \in DOMAIN attachment

\* CommentHandler.post
CommentPost(r, commitOk) ==
    LET old == commentStore
        data == r.data
        kind == Lower(r.associated_resource_type)
        attachment == data.attachment
        wellFormed == WellFormedAttachment(attachment)
        \* attachment['body'] and attachment['name'] raise KeyError without the key
        readable == "body" \in DOMAIN attachment /\ "name" \in DOMAIN attachment
        attachment_bytes ==
            IF "attachment" \in DOMAIN data
            THEN Some(AfterLastBase64(attachment.body[1]))
            ELSE None
        attachment_name ==
            IF "attachment" \in DOMAIN data THEN attachment.name ELSE None
        given == IF "group_ids" \in DOMAIN data THEN data.group_ids ELSE {}
        group_ids == IF given = {} THEN AccessibleGroupIds(r.user) ELSE given
        groups == SelectGroups(r.user, group_ids)
        found ==
            CASE kind = "spectra" -> ParseId(r.resource_id) \in SpectrumIds
              [] kind = "gcn_event" -> ParseId(r.resource_id) \in GcnEventIds
              [] kind = "shift" -> ParseId(r.resource_id) \in ShiftIds
              [] OTHER -> TRUE
        comment ==
            [id |-> nextCommentId[kind],
             kind |-> kind,
             obj_id |-> CASE kind = "sources" -> r.resource_id
                          [] kind = "spectra" -> SpectrumObjId(ParseId(r.resource_id))
                          [] OTHER -> "",
             ref_id |-> IF kind = "sources" THEN 0 ELSE ParseId(r.resource_id),
             text |-> data.text,
             attachment_bytes |-> attachment_bytes,
             attachment_name |-> attachment_name,
             author |-> r.user,
             groups |-> groups]
        users_mentioned_in_comment == SetToSeq(users_mentioned(data.text, r.user))
    IN IF "attachment" \in DOMAIN data /\ ~wellFormed
       THEN Outcome(old, Error("Malformed comment attachment", 400), <<>>)
       ELSE IF "attachment" \in DOMAIN data /\ ~readable
       THEN Outcome(old, Exception("KeyError"), <<>>)
       ELSE IF "attachment" \in DOMAIN data /\ attachment.body = None
       THEN Outcome(old, Exception("AttributeError"), <<>>)
       ELSE IF groups # group_ids
       THEN Outcome(old, Error("Cannot find one or more groups", 400), <<>>)
       ELSE IF kind = "spectra" /\ ~found
       THEN Outcome(old, Error("Could not find any accessible spectra", 400), <<>>)
       ELSE IF kind = "gcn_event" /\ ~found
       THEN Outcome(old, Error("Could not find any accessible gcn events", 400), <<>>)
       ELSE IF kind = "shift" /\ ~found
       THEN \* the except clause reads shift.id, which was never bound
            Outcome(old, Exception("UnboundLocalError"), <<>>)
       ELSE IF kind \notin Kinds
       THEN Outcome(old, Error("Unknown resource type", 400), <<>>)
       ELSE CommitThen(commitOk /\ ForeignKeysHold(comment), old,
                <<comments \cup {comment},
                  [nextCommentId EXCEPT ![kind] = @ + 1],
                  notifications \o MentionNotifications(users_mentioned_in_comment,
                                       r.user, UrlEndpoint(kind, r.resource_id))>>,
                Success(comment.id),
                MentionPushes(users_mentioned_in_comment) \o CommentPostRefresh(comment))

\* the sessions a comment handler opens: post checks the attachment before
\* its `with self.Session()` block, the others open it unconditionally
CommentSessions(r) ==
    IF /\ r.op = "comment_post"
       /\ "attachment" \in DOMAIN r.data
       /\ \/ ~WellFormedAttachment(r.data.attachment)
          \/ r.data.attachment.body = None
    THEN <<>>
    ELSE <<RequestSession>>

SelectComment_unfiltered(kind, user, comment_id, mode) ==
    LET found == {c \in comments : c.kind = kind /\ c.id = comment_id}
    IN IF found = {} THEN None ELSE Some(CHOOSE c \in found : TRUE)

\* <Variant>.select(user, mode).where(<Variant>.id == comment_id).first()
SelectComment(kind, user, comment_id, mode) ==
    SelectById({c \in comments : c.kind = kind}, user, comment_id, mode)

\* CommentHandler.get: without comment_id the visible comments of the
\* resource, with one the single comment after the resource-id match
CommentGet(r) ==
    LET old == commentStore
        kind == Lower(r.associated_resource_type)
        matches == {c \in comments : /\ c.kind = kind
                                      /\ Accessible(r.user, c, "read")
                                      /\ CommentResourceIdStr(c) = r.resource_id}
        found == SelectComment(kind, r.user, r.comment_id[1], "read")
        comment == found[1]
    IN IF kind \notin Kinds
       THEN Outcome(old, Error("Unsupported associated_resource_type", 400), <<>>)
       ELSE IF r.comment_id = None
       THEN Outcome(old, Success(SortById(matches)), <<>>)
       ELSE IF found = None
       THEN Outcome(old, Error("Could not find any accessible comments.", 403), <<>>)
       ELSE IF CommentResourceIdStr(comment) # r.resource_id
       THEN Outcome(old, Error("Comment resource ID does not match", 400), <<>>)
       ELSE Outcome(old, Success(comment), <<>>)

\* base64.b64decode(bytes) and bytes.decode(), over bytes given as tokens
B64Decode(bytes) == [i \in DOMAIN bytes |-> <<"b64decode", bytes[i]>>]
Utf8Decode(bytes) == [i \in DOMAIN bytes |-> <<"str", bytes[i]>>]

\* download = self.get_query_argument('download', True) as `if download:`
\* reads it: the default True when the argument is absent, otherwise the
\* argument's text, which is true unless it is the empty string
DownloadFlag(arg) ==
    IF arg.present THEN arg.val # "" ELSE TRUE

\* the body written with self.write under the headers set with set_header
Raw(headers, body) ==
    [status |-> "raw", code |-> 200, msg |-> "",
     data |-> [headers |-> headers, body |-> body]]

\* CommentAttachmentHandler.get
CommentAttachmentGet(r) ==
    LET old == commentStore
        kind == Lower(r.associated_resource_type)
        download == DownloadFlag(r.download)
        found == SelectComment(kind, r.user, r.comment_id, "read")
        comment == found[1]
    IN IF kind \notin Kinds
       THEN Outcome(old, Error("Unsupported associated_resource_type", 400), <<>>)
       ELSE IF found = None
       THEN Outcome(old, Error("Could not find any accessible comments.", 403), <<>>)
       ELSE IF CommentResourceIdStr(comment) # r.resource_id
       THEN Outcome(old, Error("Comment resource ID does not match", 400), <<>>)
       ELSE IF comment.attachment_bytes = None \/ comment.attachment_bytes[1] = <<>>
       THEN Outcome(old, Error("Comment has no attachment", 400), <<>>)
       ELSE IF download
       THEN Outcome(old,
                Raw([disposition |-> <<"attachment; filename=", comment.attachment_name>>,
                     type |-> "application/octet-stream"],
                    B64Decode(comment.attachment_bytes[1])),
                <<>>)
       ELSE Outcome(old,
                Success([commentId |-> r.comment_id,
                         attachment |-> Utf8Decode(B64Decode(comment.attachment_bytes[1]))]),
                <<>>)

\* the fields of the comment entities the schema knows
CommentFields == {"id", "text", "attachment_name", "obj_id", "bot"}

CommentAssign_null_assigned(c, data) ==
    [c EXCEPT
        !.text = IF "text" \in DOMAIN data THEN data.text ELSE @,
        !.attachment_name =
            IF "attachment_name" \in DOMAIN data THEN data.attachment_name ELSE @,
        !.attachment_bytes =
            IF "attachment_bytes" \in DOMAIN data
            THEN (IF data.attachment_bytes = None THEN None
                  ELSE Some(AfterLastBase64(data.attachment_bytes[1])))
            ELSE @]

\* lines 635-643: the assignments of a PUT to the loaded row
CommentAssign(c, data) ==
    [c EXCEPT
        !.text = IF "text" \in DOMAIN data THEN data.text ELSE @,
        !.attachment_name =
            IF "attachment_name" \in DOMAIN data THEN data.attachment_name ELSE @,
        !.attachment_bytes =
            IF "attachment_bytes" \in DOMAIN data /\ data.attachment_bytes # None
            THEN Some(AfterLastBase64(data.attachment_bytes[1]))
            ELSE @]

CommentPutRefresh_with_mentions(c) ==
    MentionPushes(SetToSeq(users_mentioned(c.text, c.author)))
    \o (IF HasObj(c.kind)
        THEN <<PushAll("skyportal/REFRESH_SOURCE", InternalKey(c.obj_id))>>
        ELSE <<>>)

\* the refresh broadcasts after updating a comment (lines 673-692); c.obj
\* raises AttributeError on a variant that has no `obj`
CommentPutRefresh(c) ==
    (IF HasObj(c.kind)
     THEN <<PushAll("skyportal/REFRESH_SOURCE", InternalKey(c.obj_id))>>
     ELSE <<>>)
    \o (CASE c.kind = "spectra" ->
               <<PushAll("skyportal/REFRESH_SOURCE_SPECTRA", InternalKey(c.obj_id))>>
          [] c.kind = "gcn_event" -> <<Raise("AttributeError")>>
          [] c.kind = "shift" -> <<Raise("AttributeError")>>
          [] OTHER -> <<>>)

\* CommentHandler.put
CommentPut(r, commitOk) ==
    LET old == commentStore
        kind == Lower(r.associated_resource_type)
        found == SelectComment(kind, r.user, r.comment_id, "update")
        c == found[1]
        data == r.data
        has_groups == "group_ids" \in DOMAIN data
        \* data after the pops of group_ids and attachment_bytes
        loaded == DOMAIN data \ {"group_ids", "attachment_bytes"}
        assigned == CommentAssign(c, data)
        bytes_is_none == assigned.attachment_bytes = None
        name_is_none == assigned.attachment_name = None
        groups == SelectGroups(r.user, data.group_ids)
        updated == IF has_groups THEN [assigned EXCEPT !.groups = groups] ELSE assigned
    IN IF kind \notin Kinds
       THEN Outcome(old, Error("Unsupported associated_resource_type", 400), <<>>)
       ELSE IF found = None
       THEN Outcome(old, Error("Could not find any accessible comments.", 403), <<>>)
       ELSE IF ~(loaded \subseteq CommentFields)
       THEN Outcome(old, Error("Invalid/missing parameters", 400), <<>>)
       ELSE IF bytes_is_none # name_is_none
       THEN Outcome(old, Error("leaves one of attachment name or bytes null", 400), <<>>)
       ELSE IF has_groups /\ groups # data.group_ids
       THEN Outcome(old, Error("Cannot find one or more groups", 400), <<>>)
       ELSE IF CommentResourceIdStr(c) # r.resource_id
       THEN Outcome(old, Error("Comment resource ID does not match", 400), <<>>)
       ELSE CommitThen(commitOk, old,
                <<(comments \ {c}) \cup {updated}, nextCommentId, notifications>>,
                Success(<<>>),
                CommentPutRefresh(updated))

\* Mutant of CommentDeleteRefresh: the keys are read from the row after it
\* was deleted, which raises.
CommentDeleteRefresh_key_after_delete(c) ==
    IF c.kind = "shift"
    THEN <<PushAll("skyportal/REFRESH_SHIFTS", <<>>)>>
    ELSE <<Raise("ObjectDeletedError")>>

\* the refresh broadcasts after deleting a comment (lines 807-826), with
\* the keys read before the deletion
CommentDeleteRefresh(c) ==
    (IF HasObj(c.kind)
     THEN <<PushAll("skyportal/REFRESH_SOURCE", InternalKey(c.obj_id))>>
     ELSE <<>>)
    \o (CASE c.kind = "gcn_event" ->
               <<PushAll("skyportal/REFRESH_GCNEVENT", Dateobs(c.ref_id))>>
          [] c.kind = "spectra" ->
               <<PushAll("skyportal/REFRESH_SOURCE_SPECTRA", InternalKey(c.obj_id))>>
          [] c.kind = "shift" -> <<PushAll("skyportal/REFRESH_SHIFTS", <<>>)>>
          [] OTHER -> <<>>)

\* CommentHandler.delete
CommentDelete(r, commitOk) ==
    LET old == commentStore
        kind == Lower(r.associated_resource_type)
        found == SelectComment(kind, r.user, r.comment_id, "delete")
        c == found[1]
    IN IF kind \notin Kinds
       THEN Outcome(old, Error("Unsupported associated_resource_type", 400), <<>>)
       ELSE IF found = None
       THEN Outcome(old, Error("Could not find any accessible comments.", 403), <<>>)
       ELSE IF CommentResourceIdStr(c) # r.resource_id
       THEN Outcome(old, Error("Comment resource ID does not match", 400), <<>>)
       ELSE CommitThen(commitOk, old,
                <<comments \ {c}, nextCommentId, notifications>>,
                Success(<<>>),
                CommentDeleteRefresh(c))

(***************************************************************************)
(* StatsHandler (db_stats.py).  Of the tables it counts, the model holds   *)
(* objs, spectra, groups and users; the cron job runs are the state        *)
(* cronJobRuns.                                                            *)
(***************************************************************************)
\* sa.select(CronJobRun.script).distinct(): the distinct script names
CronJobScripts(runs) == {run.script : run \in runs}

\* a row of that result: a Row of one column
Row(script) == <<script>>

\* the orders in which the database may return a set of rows
Orders(set) ==
    {seq \in [1..Cardinality(set) -> set] :
        \A i, j \in 1..Cardinality(set) : i # j => seq[i] # seq[j]}

\* .where(CronJobRun.script == <name>).order_by(created_at.desc()).first():
\* the runs of the script that no other run of it is newer than
LatestRuns(runs, script) ==
    {run \in runs : /\ run.script = script
                     /\ \A other \in runs :
                           other.script = script => other.created_at <= run.created_at}

\* the choices of one latest run per script
LatestChoices(runs) ==
    {f \in [CronJobScripts(runs) -> runs] :
        \A script \in CronJobScripts(runs) : f[script] \in LatestRuns(runs, script)}

\* `CronJobRun.script == script` binds the Row itself, not its column: the
\* driver either adapts it like the tuple it stands for or refuses it
RowBindOutcomes == {"adapted", "ProgrammingError"}

\* the entry appended for one script; the summary formats the Row
CronJobEntry(script, run) ==
    [summary |-> [script |-> Row(script), created_at |-> run.created_at,
                  exit_status |-> run.exit_status],
     output |-> run.output]

\* StatsHandler.get
StatsGet(r, order, latest, bind) ==
    IF order # <<>> /\ bind = "ProgrammingError"
    THEN Exception("ProgrammingError")
    ELSE Success([objs |-> Cardinality(Objs),
                  spectra |-> Cardinality(SpectrumIds),
                  groups |-> Cardinality(GroupIds),
                  users |-> Cardinality(AllUsers),
                  cron_jobs |-> [i \in DOMAIN order |->
                                    CronJobEntry(order[i], latest[order[i]])]])

\* the sessions StatsHandler.get opens: DBSession() for the raw photometry
\* count, then self.Session() for everything else
StatsSessions == <<ModuleSession, RequestSession>>

(***************************************************************************)
(* Requests a client can send (bounded inputs).                            *)
(***************************************************************************)
Callers == {"alice", "bob"}
Absent == [present |-> FALSE, ids |-> {}]
Given(ids) == [present |-> TRUE, ids |-> ids]

ClassInputs == {"C", "X"}                     \* X is no class of the taxonomy
TaxonomyIdInputs == {1, 2}                    \* 2 is no stored taxonomy
ProbabilityInputs == {None, Some(-1), Some(0), Some(10), Some(15)}
RowIdInputs == 1..(MaxRows + 1)

ClassificationPostRequests ==
    [op : {"classification_post"}, user : Callers, obj_id : Objs,
     classification : ClassInputs, taxonomy_id : TaxonomyIdInputs,
     probability : ProbabilityInputs,
     group_ids : {Absent, Given({}), Given({1, 2})}]

\* the body of a PUT after data['id'] = classification_id
ClassificationPatches(id) ==
    { [id |-> id],
      [id |-> id, classification |-> "X"],
      [id |-> id, probability |-> Some(15)],
      [id |-> id, bogus |-> "x"] }

ClassificationPutRequests ==
    UNION { [op : {"classification_put"}, user : Callers, classification_id : {id},
             data : ClassificationPatches(id),
             group_ids : {Absent, Given({1, 2})}]
            : id \in RowIdInputs }

ClassificationDeleteRequests ==
    [op : {"classification_delete"}, user : Callers, classification_id : RowIdInputs]

\* a GET by id; `previous` records the request and response it follows
ClassificationGetRequests(previous) ==
    [op : {"classification_get"}, user : Callers, classification_id : RowIdInputs,
     previous : {previous}]

NoArg == [present |-> FALSE, val |-> 0]
Arg(v) == [present |-> TRUE, val |-> v]

ClassificationListRequests ==
    [op : {"classification_list"}, user : Callers,
     numPerPage : {NoArg, Arg(1), Arg(1000)},
     pageNumber : {NoArg, Arg(1), Arg(2)}]

TextHi == <<"h", "i">>
TextMention == <<"@", "b", ",", "@", "c", " ", "@", "b", " ", "@", "d", "!">>
TextInputs == {TextHi, TextMention}

\* (associated_resource_type, resource_id) of the path: for each kind the
\* stored resource and one that is not stored, and an unknown type
CommentPaths ==
    { <<"sources", "ZTF1">>, <<"sources", "ZTF9">>,
      <<"spectra", "1">>, <<"spectra", "999">>,
      <<"gcn_event", "1">>, <<"gcn_event", "999">>,
      <<"shift", "1">>, <<"shift", "999">>,
      <<"instrument", "1">> }

AttachmentInputs ==
    { [body |-> Some(<<"data:", "base64,", "b">>), name |-> Some("f")],
      [body |-> Some(<<"b">>), name |-> None],
      [body |-> None, name |-> Some("f")],
      [body |-> Some(<<"b">>)],
      [name |-> Some("f")] }

CommentPostBodies ==
    [text : TextInputs]
    \cup [text : {TextHi}, attachment : AttachmentInputs]
    \cup [text : {TextMention}, attachment : {[name |-> Some("f")]}]
    \cup [text : {TextHi}, group_ids : {{2}}]

CommentPostRequests ==
    { [op |-> "comment_post", user |-> u, associated_resource_type |-> p[1],
       resource_id |-> p[2], data |-> d]
      : u \in Callers, p \in CommentPaths, d \in CommentPostBodies }

\* the body of a PUT after data['id'] = comment_id
CommentPatches(id) ==
    { [id |-> id],
      [id |-> id, text |-> TextMention],
      [id |-> id, attachment_name |-> None],
      [id |-> id, attachment_bytes |-> None],
      [id |-> id, attachment_name |-> None, attachment_bytes |-> None],
      [id |-> id, attachment_name |-> Some("f"),
                  attachment_bytes |-> Some(<<"base64,", "b">>)],
      [id |-> id, group_ids |-> {1, 2}],
      [id |-> id, bogus |-> "x"] }

CommentPutRequests ==
    { [op |-> "comment_put", user |-> u, associated_resource_type |-> p[1],
       resource_id |-> p[2], comment_id |-> x[1], data |-> x[2]]
      : u \in Callers, p \in CommentPaths,
        x \in UNION { {<<id, d>> : d \in CommentPatches(id)} : id \in RowIdInputs } }

CommentDeleteRequests ==
    { [op |-> "comment_delete", user |-> u, associated_resource_type |-> p[1],
       resource_id |-> p[2], comment_id |-> id]
      : u \in Callers, p \in CommentPaths, id \in RowIdInputs }

CommentGetRequests ==
    { [op |-> "comment_get", user |-> u, associated_resource_type |-> p[1],
       resource_id |-> p[2], comment_id |-> id]
      : u \in Callers, p \in CommentPaths,
        id \in {None} \cup {Some(i) : i \in RowIdInputs} }

\* the `download` query argument: absent, or its text
NoDownload == [present |-> FALSE, val |-> ""]
DownloadArgs == {NoDownload} \cup [present : {TRUE}, val : {"false", ""}]

CommentAttachmentGetRequests ==
    { [op |-> "comment_attachment_get", user |-> u,
       associated_resource_type |-> p[1], resource_id |-> p[2],
       comment_id |-> id, download |-> d]
      : u \in Callers, p \in CommentPaths, id \in RowIdInputs, d \in DownloadArgs }

\* GET /api/db_stats, by a system administrator
StatsRequests == [op : {"stats"}, user : {"bob"}]

\* the CronJobRun rows a deployment may hold
CronJobRunInputs ==
    [script : {"a", "b"}, created_at : 1..2, exit_status : {0, 1},
     output : {"x", "y"}]

(***************************************************************************)
(* Actions.                                                                *)
(***************************************************************************)
Init ==
    /\ classifications = {}
    /\ nextClassificationId = 1
    /\ comments = {}
    /\ nextCommentId = [k \in Kinds |-> 1]
    /\ notifications = <<>>
    /\ req = NoReq
    /\ resp = NoResp
    /\ events = <<>>
    /\ mentionText = <<>>
    /\ mentionNames = None
    /\ sessions = <<>>
    /\ listing = None
    /\ cronJobRuns = {}

Idle == req = NoReq

\* rows created so far
RowsCreated ==
    (nextClassificationId - 1)
    + (nextCommentId["sources"] - 1) + (nextCommentId["spectra"] - 1)
    + (nextCommentId["gcn_event"] - 1) + (nextCommentId["shift"] - 1)

\* a classification handler has run on request r
FinishClassification(r, out) ==
    /\ classifications' = out.store[1]
    /\ nextClassificationId' = out.store[2]
    /\ req' = r
    /\ resp' = out.resp
    /\ events' = out.events
    /\ sessions' = <<RequestSession>>
    /\ UNCHANGED <<commentStore, mentionVars, listing, cronJobRuns>>

HandleClassificationPost ==
    /\ Idle
    /\ RowsCreated < MaxRows
    /\ \E r \in ClassificationPostRequests :
         \E out \in {ClassificationPost(r, ok) : ok \in BOOLEAN} :
            FinishClassification(r, out)

HandleClassificationPut ==
    /\ Idle
    /\ \E r \in ClassificationPutRequests :
         \E out \in {ClassificationPut(r, ok) : ok \in BOOLEAN} :
            FinishClassification(r, out)

HandleClassificationDelete ==
    /\ Idle
    /\ \E r \in ClassificationDeleteRequests :
         \E out \in {ClassificationDelete(r, ok) : ok \in BOOLEAN} :
            FinishClassification(r, out)

\* a GET by id, issued when no request is in progress or as the next
\* request after a create
HandleClassificationGet ==
    /\ Idle \/ req.op = "classification_post"
    /\ \E r \in ClassificationGetRequests([req |-> req, resp |-> resp]) :
         FinishClassification(r, ClassificationGet(r))

HandleClassificationList ==
    /\ Idle
    /\ \E r \in ClassificationListRequests :
         FinishClassification(r, ClassificationList(r))

\* a listing has run its count statement; other requests may be handled
\* before it runs its page statement
ListCount ==
    /\ Idle
    /\ listing = None
    /\ \E r \in ClassificationListRequests :
         listing' = Some(CountQuery(r, classifications))
    /\ UNCHANGED <<classificationStore, commentStore, mentionVars, req, resp,
                   events, sessions, cronJobRuns>>

\* the listing runs its page statement and responds
ListPage ==
    /\ Idle
    /\ listing # None
    /\ req' = listing[1].request
    /\ resp' = PageQuery(listing[1], classifications)
    /\ events' = <<>>
    /\ sessions' = <<RequestSession>>
    /\ listing' = None
    /\ UNCHANGED <<classificationStore, commentStore, mentionVars, cronJobRuns>>

\* a comment handler has run on request r
FinishComment(r, out) ==
    /\ comments' = out.store[1]
    /\ nextCommentId' = out.store[2]
    /\ notifications' = out.store[3]
    /\ req' = r
    /\ resp' = out.resp
    /\ events' = out.events
    /\ sessions' = CommentSessions(r)
    /\ UNCHANGED <<classificationStore, mentionVars, listing, cronJobRuns>>

HandleCommentPost ==
    /\ Idle
    /\ RowsCreated < MaxRows
    /\ \E r \in CommentPostRequests :
         \E out \in {CommentPost(r, ok) : ok \in BOOLEAN} :
            FinishComment(r, out)

HandleCommentPut ==
    /\ Idle
    /\ \E r \in CommentPutRequests :
         \E out \in {CommentPut(r, ok) : ok \in BOOLEAN} :
            FinishComment(r, out)

HandleCommentDelete ==
    /\ Idle
    /\ \E r \in CommentDeleteRequests :
         \E out \in {CommentDelete(r, ok) : ok \in BOOLEAN} :
            FinishComment(r, out)

HandleCommentGet ==
    /\ Idle
    /\ \E r \in CommentGetRequests :
         FinishComment(r, CommentGet(r))

HandleCommentAttachmentGet ==
    /\ Idle
    /\ \E r \in CommentAttachmentGetRequests :
         FinishComment(r, CommentAttachmentGet(r))

\* the response is returned and the request is over
Respond ==
    /\ ~Idle
    /\ req' = NoReq
    /\ resp' = NoResp
    /\ events' = <<>>
    /\ sessions' = <<>>
    /\ UNCHANGED <<classificationStore, commentStore, mentionVars, listing,
                   cronJobRuns>>

NextClassification ==
    \/ HandleClassificationPost
    \/ HandleClassificationPut
    \/ HandleClassificationDelete
    \/ HandleClassificationGet
    \/ HandleClassificationList
    \/ Respond

NextComment ==
    \/ HandleCommentPost
    \/ HandleCommentPut
    \/ HandleCommentDelete
    \/ HandleCommentGet
    \/ Respond

NextAttachment ==
    \/ NextComment
    \/ HandleCommentAttachmentGet

Next == NextClassification \/ NextComment

\* the classification API and the comment API together
Spec == Init /\ [][Next]_vars

\* the classification API alone
SpecClassification == Init /\ [][NextClassification]_vars

\* a listing interleaved with the creates and deletes of other requests
NextListing ==
    \/ ListCount
    \/ ListPage
    \/ HandleClassificationPost
    \/ HandleClassificationDelete
    \/ Respond

SpecListing == Init /\ [][NextListing]_vars

\* the comment API alone
SpecComment == Init /\ [][NextComment]_vars

\* the comment API with the attachment download (CommentAttachmentHandler)
SpecAttachment == Init /\ [][NextAttachment]_vars

(***************************************************************************)
(* The statistics report over every table of up to MaxCronRuns cron job    *)
(* runs.                                                                   *)
(***************************************************************************)
InitStats ==
    /\ classifications = {}
    /\ nextClassificationId = 1
    /\ comments = {}
    /\ nextCommentId = [k \in Kinds |-> 1]
    /\ notifications = <<>>
    /\ req = NoReq
    /\ resp = NoResp
    /\ events = <<>>
    /\ mentionText = <<>>
    /\ mentionNames = None
    /\ sessions = <<>>
    /\ listing = None
    /\ cronJobRuns \in {runs \in SUBSET CronJobRunInputs : Cardinality(runs) <= MaxCronRuns}

HandleStats ==
    /\ Idle
    /\ \E r \in StatsRequests :
         \E order \in Orders(CronJobScripts(cronJobRuns)) :
            \E latest \in LatestChoices(cronJobRuns) :
               \E bind \in RowBindOutcomes :
                  /\ req' = r
                  /\ resp' = StatsGet(r, order, latest, bind)
                  /\ events' = <<>>
                  /\ sessions' = StatsSessions
    /\ UNCHANGED <<classificationStore, commentStore, mentionVars, listing,
                   cronJobRuns>>

NextStats ==
    \/ HandleStats
    \/ Respond

SpecStats == InitStats /\ [][NextStats]_vars

(***************************************************************************)
(* The mention tokenizer on its own: every text of up to MaxTextLen        *)
(* characters over MentionChars.                                           *)
(***************************************************************************)
MentionChars == {"a", "@", ",", " ", "!", "-"}
MentionTexts == UNION {[1..n -> MentionChars] : n \in 0..MaxTextLen}

InitMention ==
    /\ classifications = {}
    /\ nextClassificationId = 1
    /\ comments = {}
    /\ nextCommentId = [k \in Kinds |-> 1]
    /\ notifications = <<>>
    /\ req = NoReq
    /\ resp = NoResp
    /\ events = <<>>
    /\ mentionText \in MentionTexts
    /\ mentionNames = None
    /\ sessions = <<>>
    /\ listing = None
    /\ cronJobRuns = {}

Tokenize ==
    /\ mentionNames = None
    /\ mentionNames' = Some(MentionedUsernames(mentionText))
    /\ UNCHANGED <<classificationStore, commentStore, req, resp, events,
                   mentionText, sessions, listing, cronJobRuns>>

SpecMention == InitMention /\ [][Tokenize]_vars

(***************************************************************************)
(* Properties.                                                             *)
(***************************************************************************)
MutatingOps ==
    {"classification_post", "classification_put", "classification_delete",
     "comment_post", "comment_put", "comment_delete"}
IsPush(e) == e.type \in {"push_all", "push"}

\* C1: in every mutating handler each refresh broadcast and each
\* FETCH_NOTIFICATIONS push of a request is issued after that request's
\* successful commit; a request that returns an error before committing, or
\* whose commit fails, issues no broadcast and no push.
C1_PushesOnlyAfterCommit ==
    req.op \in MutatingOps =>
        /\ \A i \in DOMAIN events :
              IsPush(events[i]) => \E j \in 1..(i - 1) : events[j].type = "commit"
        /\ (resp.status = "error" \/ resp.msg = "commit failed")
              => \A i \in DOMAIN events : ~IsPush(events[i])

\* a comment was created with a mention: commit, then the push, then a broadcast
C1_Witness ==
    /\ req.op = "comment_post"
    /\ Len(events) >= 3
    /\ events[1].type = "commit"
    /\ events[2].type = "push"
    /\ events[3].type = "push_all"

\* the node paths of a hierarchy: sequences of child positions
TaxPaths == UNION {[1..d -> 1..TaxBranch] : d \in 0..TaxDepth}
NoNode == [missing |-> TRUE]
RECURSIVE NodeAt(_, _)
NodeAt(hierarchy, path) ==
    IF path = <<>> THEN hierarchy
    ELSE IF "subclasses" \in DOMAIN hierarchy /\ Head(path) <= Len(hierarchy.subclasses)
    THEN NodeAt(hierarchy.subclasses[Head(path)], Tail(path))
    ELSE NoNode
\* label is the `class` of some node of the hierarchy
ClassAtSomeNode(hierarchy, label) ==
    \E path \in TaxPaths :
        LET node == NodeAt(hierarchy, path)
        IN "class" \in DOMAIN node /\ node.class = label

\* C2: every persisted classification's label is a `class` of some node of
\* the hierarchy of its taxonomy.
C2_LabelInTaxonomy ==
    \A c \in classifications :
        ClassAtSomeNode(Hierarchy(c.taxonomy_id), c.classification)

\* C3: every persisted classification's probability is null or in [0,1].
C3_ProbabilityInUnitInterval ==
    \A c \in classifications :
        c.probability = None \/ (c.probability[1] >= 0 /\ c.probability[1] <= 10)

\* C4: a classification or comment POST/PUT/DELETE that ends in an error
\* leaves every persisted row, group membership and notification as it was.
C4_ErrorLeavesStoreUnchanged ==
    [][ (req'.op \in MutatingOps /\ resp'.status \in {"error", "exception"})
          => UNCHANGED <<classifications, comments, notifications>> ]_vars

\* C5: classification create refuses a label as not allowed exactly when it
\* is the `class` of no node of the taxonomy's hierarchy, at any depth; a
\* refused label persists nothing, and a created row carries the label.
C5_LabelAcceptedIffInHierarchy ==
    [][ (req'.op = "classification_post" /\ req'.taxonomy_id \in TaxonomyIds) =>
          LET inTree == ClassAtSomeNode(Hierarchy(req'.taxonomy_id),
                                        req'.classification)
          IN /\ (resp' = Error("not in the allowed classes", 400)) <=> ~inTree
             /\ ~inTree => UNCHANGED classifications
             /\ resp'.status = "success" =>
                   \E c \in classifications' :
                      c.id = resp'.data /\ c.classification = req'.classification
       ]_vars

\* a label at depth 2 of the hierarchy was accepted
C5_Witness ==
    /\ req.op = "classification_post"
    /\ req.classification = "C"
    /\ resp.status = "success"
    /\ \E c \in classifications : c.id = resp.data /\ c.classification = "C"

\* C6: classification create refuses every probability below 0 or above 1
\* with an InvalidInput error and persists nothing; 0, 1 and an absent
\* probability are never refused as out of range, and a created row carries
\* the probability.
C6_ProbabilityBounds ==
    [][ req'.op = "classification_post" =>
          LET p == req'.probability
              outside == p # None /\ (p[1] < 0 \/ p[1] > 10)
          IN /\ outside => /\ resp'.status = "error"
                           /\ resp'.code = 400
                           /\ UNCHANGED classifications
             /\ ~outside => resp' # Error("outside the allowable range", 400)
             /\ resp'.status = "success" =>
                   \E c \in classifications' : c.id = resp'.data /\ c.probability = p
       ]_vars

\* a classification with probability 1 was created
C6_Witness ==
    /\ req.op = "classification_post"
    /\ req.probability = Some(10)
    /\ resp.status = "success"
    /\ \E c \in classifications : c.id = resp.data /\ c.probability = Some(10)

\* C7: the classification listing returns, for numPerPage n and pageNumber
\* p >= 1, at most min(n, 500) rows: the matches after the first
\* (p-1)*min(n, 500).
C7_ListingPage ==
    req.op = "classification_list" =>
        LET n == Min(IF req.numPerPage.present THEN req.numPerPage.val ELSE 100, 500)
            p == IF req.pageNumber.present THEN req.pageNumber.val ELSE 1
            matches == SortById({c \in classifications :
                                    Accessible(req.user, c, "read")})
        IN /\ resp.status = "success"
           /\ Len(resp.data.classifications) <= n
           /\ resp.data.classifications
                 = SubSeq(matches, (p - 1) * n + 1, Min(Len(matches), p * n))

\* the candidate usernames as the claim describes them: only the leading
\* '@' of a token is removed
RECURSIVE ClaimedLoop(_)
ClaimedLoop(words) ==
    IF words = <<>> THEN <<>>
    ELSE LET word == Strip(Head(words), MentionPunctuation)
         IN (IF StartsWith(word, "@") THEN <<Tail(word)>> ELSE <<>>)
            \o ClaimedLoop(Tail(words))
ClaimedUsernames(text) == Range(ClaimedLoop(Split(ReplaceChar(text, ",", " "))))

\* C8: the candidate usernames of a text are its tokens (commas read as
\* spaces, split on whitespace, punctuation other than '-' and '@'
\* stripped) that begin with '@', each without its leading '@' only.
C8_MentionsLeadingAtRemoved ==
    mentionNames # None => Range(mentionNames[1]) = ClaimedUsernames(mentionText)

\* C9: comment create with an attachment holding only one of body / name is
\* refused as malformed for every resource type, and neither a comment nor a
\* notification is persisted.
C9_MalformedAttachmentRefused ==
    [][ (/\ req'.op = "comment_post"
         /\ "attachment" \in DOMAIN req'.data
         /\ ("body" \in DOMAIN req'.data.attachment)
               # ("name" \in DOMAIN req'.data.attachment))
          => /\ resp' = Error("Malformed comment attachment", 400)
             /\ UNCHANGED <<comments, notifications>>
       ]_vars

\* a shift comment that mentions a user and carries only a name was refused
C9_Witness ==
    /\ req.op = "comment_post"
    /\ req.associated_resource_type = "shift"
    /\ req.resource_id = "1"
    /\ req.data.text = TextMention
    /\ "attachment" \in DOMAIN req.data
    /\ DOMAIN req.data.attachment = {"name"}
    /\ resp = Error("Malformed comment attachment", 400)
    /\ comments = {} /\ notifications = <<>>

\* the body nulls out exactly one of the two attachment fields
NullsOneAttachmentField(data) ==
    \/ /\ "attachment_name" \in DOMAIN data /\ data.attachment_name = None
       /\ "attachment_bytes" \notin DOMAIN data
    \/ /\ "attachment_bytes" \in DOMAIN data /\ data.attachment_bytes = None
       /\ "attachment_name" \notin DOMAIN data

\* C10: an update of a comment that has an attachment, by a caller who may
\* update it, that nulls out only attachment_name or only attachment_bytes
\* is refused with InvalidInput and the stored comment is unchanged.
C10_NullingOneFieldRefused ==
    [][ (/\ req'.op = "comment_put"
         /\ NullsOneAttachmentField(req'.data)
         /\ \E c \in comments :
               /\ c.kind = Lower(req'.associated_resource_type)
               /\ c.id = req'.comment_id
               /\ CommentResourceIdStr(c) = req'.resource_id
               /\ Accessible(req'.user, c, "update")
               /\ c.attachment_name # None /\ c.attachment_bytes # None)
          => /\ resp'.status = "error"
             /\ resp'.code = 400
             /\ UNCHANGED comments
       ]_vars

\* C11: after any sequence of comment create, update and delete requests,
\* every persisted comment has attachment_name and attachment_bytes both
\* null or both non-null.
C11_AttachmentBothOrNeither ==
    \A c \in comments : (c.attachment_name = None) <=> (c.attachment_bytes = None)

\* the broadcasts among the effects of the request, as (action, payload) pairs
Broadcasts ==
    {<<events[i].action, events[i].payload>> :
        i \in {j \in DOMAIN events : events[j].type = "push_all"}}
BroadcastActions == {b[1] : b \in Broadcasts}

\* C12: a successful comment create on a gcn_event broadcasts
\* REFRESH_GCNEVENT keyed by the event's dateobs, whether or not a
\* REFRESH_SOURCE is broadcast, and broadcasts no REFRESH_SOURCE_SPECTRA.
C12_GcnCommentRefresh ==
    (/\ req.op = "comment_post"
     /\ Lower(req.associated_resource_type) = "gcn_event"
     /\ resp.status = "success")
      => /\ <<"skyportal/REFRESH_GCNEVENT", Dateobs(ParseId(req.resource_id))>>
               \in Broadcasts
         /\ \A b \in Broadcasts :
               b[1] = "skyportal/REFRESH_GCNEVENT"
                  => b[2] = Dateobs(ParseId(req.resource_id))
         /\ "skyportal/REFRESH_SOURCE_SPECTRA" \notin BroadcastActions

\* a comment on GCN event 1 was created and no REFRESH_SOURCE was sent
C12_Witness ==
    /\ req.op = "comment_post"
    /\ req.associated_resource_type = "gcn_event"
    /\ resp.status = "success"
    /\ \E c \in comments : c.kind = "gcn_event" /\ c.id = resp.data
    /\ "skyportal/REFRESH_GCNEVENT" \in BroadcastActions
    /\ "skyportal/REFRESH_SOURCE" \notin BroadcastActions

\* C13: a classification DELETE by a caller without delete rights on the
\* row ends in an error, leaves the row and its groups as they were and
\* broadcasts nothing.
C13_DeleteWithoutRights ==
    [][ (/\ req'.op = "classification_delete"
         /\ \E c \in classifications :
               /\ c.id = req'.classification_id
               /\ ~Accessible(req'.user, c, "delete"))
          => /\ resp'.status = "error"
             /\ resp'.code \in {400, 403, 404}
             /\ UNCHANGED classifications
             /\ events' = <<>>
       ]_vars

\* a caller who can read another author's row tried to delete it
C13_Witness ==
    /\ req.op = "classification_delete"
    /\ resp.status = "error"
    /\ \E c \in classifications :
          /\ c.id = req.classification_id
          /\ c.author # req.user
          /\ Accessible(req.user, c, "read")

\* the id of the resource a comment row hangs on, as text
ParentResourceId(c) ==
    CASE c.kind = "sources" -> c.obj_id
      [] OTHER -> Str(c.ref_id)

\* C14: for every resource kind, a GET of a single comment that exists and
\* is visible to the caller fails with InvalidInput, returning no comment
\* data, exactly when the path resource_id differs from the id of the
\* comment's own parent resource; otherwise it returns the comment.
C14_GetResourceIdMismatch ==
    [][ (req'.op = "comment_get" /\ req'.comment_id # None) =>
          \A c \in comments :
             (/\ c.kind = Lower(req'.associated_resource_type)
              /\ c.id = req'.comment_id[1]
              /\ Accessible(req'.user, c, "read"))
               => /\ ParentResourceId(c) # req'.resource_id
                     => /\ resp'.status = "error"
                        /\ resp'.code = 400
                        /\ resp'.msg = "Comment resource ID does not match"
                  /\ ParentResourceId(c) = req'.resource_id
                     => /\ resp'.status = "success"
                        /\ resp'.data = c
       ]_vars

\* a visible comment on shift 1 was asked for under shift 999
C14_Witness ==
    /\ req.op = "comment_get"
    /\ req.associated_resource_type = "shift"
    /\ req.resource_id = "999"
    /\ req.comment_id # None
    /\ \E c \in comments :
          /\ c.kind = "shift" /\ c.id = req.comment_id[1] /\ c.ref_id = 1
          /\ Accessible(req.user, c, "read")
    /\ resp = Error("Comment resource ID does not match", 400)

\* C15: a GET by the returned id, issued by the same caller right after an
\* accepted classification POST, returns the posted classification,
\* taxonomy_id and probability.
C15_PostGetRoundTrip ==
    (/\ req.op = "classification_get"
     /\ req.previous.req.op = "classification_post"
     /\ req.previous.resp.status = "success"
     /\ req.user = req.previous.req.user
     /\ req.classification_id = req.previous.resp.data)
      => /\ resp.status = "success"
         /\ resp.data.classification = req.previous.req.classification
         /\ resp.data.taxonomy_id = req.previous.req.taxonomy_id
         /\ resp.data.probability = req.previous.req.probability

GroupWriteOps ==
    {"classification_post", "classification_put", "comment_post", "comment_put"}

\* the group ids a write request supplies, if any
SuppliedGroupIds(r) ==
    IF r.op \in {"classification_post", "classification_put"}
    THEN (IF r.group_ids.present THEN Some(r.group_ids.ids) ELSE None)
    ELSE (IF "group_ids" \in DOMAIN r.data THEN Some(r.data.group_ids) ELSE None)

\* the groups a successful write must leave on the row it wrote
GroupsToAttach(r) ==
    IF SuppliedGroupIds(r) = None \/ (r.op = "comment_post" /\ SuppliedGroupIds(r) = Some({}))
    THEN None
    ELSE SuppliedGroupIds(r)

\* C16: a classification or comment create/update that supplies a group id
\* the caller cannot access fails with an error and writes nothing; the
\* group error is InvalidInput and is given for no other reason; every row a
\* successful write adds or changes carries the supplied groups, all
\* accessible to the writer.
C16_GroupsResolveExactly ==
    [][ req'.op \in GroupWriteOps =>
          LET supplied == SuppliedGroupIds(req')
              resolvable == supplied = None
                            \/ supplied[1] \subseteq AccessibleGroupIds(req'.user)
              attach == GroupsToAttach(req')
          IN /\ ~resolvable
                => /\ resp'.status = "error"
                   /\ UNCHANGED <<classifications, comments, notifications>>
             /\ (resp'.status = "error"
                 /\ resp'.msg = "Cannot find one or more groups")
                => (~resolvable /\ resp'.code = 400)
             /\ resp'.status = "success"
                => /\ \A row \in classifications' \ classifications :
                         /\ row.groups \subseteq AccessibleGroupIds(req'.user)
                         /\ attach # None => row.groups = attach[1]
                   /\ \A row \in comments' \ comments :
                         /\ row.groups \subseteq AccessibleGroupIds(req'.user)
                         /\ attach # None => row.groups = attach[1]
       ]_vars

\* an author's update naming a group the author cannot access was refused
C16_Witness ==
    /\ req.op = "comment_put"
    /\ req.user = "alice"
    /\ "group_ids" \in DOMAIN req.data
    /\ req.data.group_ids = {1, 2}
    /\ \E c \in comments :
          /\ c.id = req.comment_id /\ c.author = "alice" /\ c.groups = {1}
          /\ c.kind = Lower(req.associated_resource_type)
    /\ resp = Error("Cannot find one or more groups", 400)

\* C17: a comment create on a shift the caller cannot access, in a request
\* that is otherwise valid, returns a Forbidden error with HTTP status 403
\* and persists no comment.
C17_InaccessibleShiftForbidden ==
    [][ (/\ req'.op = "comment_post"
         /\ Lower(req'.associated_resource_type) = "shift"
         /\ ParseId(req'.resource_id) \notin ShiftIds
         /\ "attachment" \notin DOMAIN req'.data
         /\ SuppliedGroupIds(req') = None)
          => /\ resp'.status = "error"
             /\ resp'.code = 403
             /\ UNCHANGED <<comments, notifications>>
       ]_vars

\* the broadcasts a committed update of a comment of this kind is to make
UpdateRefreshActions(kind) ==
    CASE kind = "sources" -> {"skyportal/REFRESH_SOURCE"}
      [] kind = "spectra" -> {"skyportal/REFRESH_SOURCE",
                              "skyportal/REFRESH_SOURCE_SPECTRA"}
      [] kind = "gcn_event" -> {"skyportal/REFRESH_SOURCE_GCN"}
      [] OTHER -> {"skyportal/REFRESH_SHIFT"}

\* C18: for each resource kind, a comment update that commits completes
\* successfully after broadcasting the refresh events of its kind.
C18_UpdateRefreshPerKind ==
    (req.op = "comment_put" /\ events # <<>>)
      => /\ resp.status = "success"
         /\ BroadcastActions = UpdateRefreshActions(Lower(req.associated_resource_type))

\* the broadcasts a delete of comment row c is to make, with the keys of c
DeleteRefresh(c) ==
    CASE c.kind = "sources" ->
            {<<"skyportal/REFRESH_SOURCE", InternalKey(c.obj_id)>>}
      [] c.kind = "spectra" ->
            {<<"skyportal/REFRESH_SOURCE", InternalKey(c.obj_id)>>,
             <<"skyportal/REFRESH_SOURCE_SPECTRA", InternalKey(c.obj_id)>>}
      [] c.kind = "gcn_event" ->
            {<<"skyportal/REFRESH_GCNEVENT", Dateobs(c.ref_id)>>}
      [] OTHER -> {<<"skyportal/REFRESH_SHIFTS", <<>>>>}

\* C19: a comment delete that commits completes successfully; its
\* broadcasts come after the commit and are those of the comment's kind,
\* keyed by what the row held before it was deleted (REFRESH_SOURCE for a
\* comment tied to an object, REFRESH_SOURCE_SPECTRA for a spectrum comment,
\* REFRESH_GCNEVENT with the dateobs for a GCN comment, REFRESH_SHIFTS
\* without key for a shift comment); the row is gone afterwards.
C19_DeleteRefreshWithOldKey ==
    [][ (req'.op = "comment_delete" /\ events' # <<>>) =>
          \E c \in comments :
             /\ c.kind = Lower(req'.associated_resource_type)
             /\ c.id = req'.comment_id
             /\ resp'.status = "success"
             /\ events'[1] = Commit
             /\ Broadcasts' = DeleteRefresh(c)
             /\ comments' = comments \ {c}
             /\ \A u \in Callers :
                   SelectById({d \in comments' : d.kind = c.kind}, u, c.id, "read") = None
       ]_vars

\* a comment on GCN event 1 was deleted
C19_Witness ==
    /\ req.op = "comment_delete"
    /\ req.associated_resource_type = "gcn_event"
    /\ resp.status = "success"
    /\ events = <<Commit, PushAll("skyportal/REFRESH_GCNEVENT", Dateobs(1))>>
    /\ comments = {}

ClassificationObjIds(r, rows) ==
    IF r.op = "classification_post" THEN {r.obj_id}
    ELSE {c.obj_id : c \in {d \in rows : d.id = r.classification_id}}

\* C21: every successful classification create, update and delete issues,
\* after its commit, exactly two broadcasts, REFRESH_SOURCE then
\* REFRESH_CANDIDATE, both carrying the internal key of the classification's
\* object; delete carries the key of the row as it was before the request.
C21_TwoRefreshesSameKey ==
    [][ (/\ req'.op \in {"classification_post", "classification_put",
                         "classification_delete"}
         /\ resp'.status = "success")
          => \E obj_id \in ClassificationObjIds(req', classifications) :
                events' = << Commit,
                             PushAll("skyportal/REFRESH_SOURCE", InternalKey(obj_id)),
                             PushAll("skyportal/REFRESH_CANDIDATE", InternalKey(obj_id)) >>
       ]_vars

\* a delete succeeded: the row is gone and its object's key was broadcast
C21_Witness ==
    /\ req.op = "classification_delete"
    /\ resp.status = "success"
    /\ classifications = {}
    /\ Len(events) = 3
    /\ events[3] = PushAll("skyportal/REFRESH_CANDIDATE", InternalKey("ZTF1"))

\* C28: in classification create the caller's accessible groups are the
\* default only when group_ids is absent; an explicit empty group_ids list is
\* never refused by the group check, and when the create succeeds the new row
\* is attached to no groups.
C28_EmptyGroupListPersistsNoGroups ==
    [][ req'.op = "classification_post"
          => /\ (req'.group_ids = Given({}))
                  => /\ resp'.msg # "Cannot find one or more groups"
                     /\ (resp'.status = "success")
                          => \E c \in classifications' \ classifications :
                                c.groups = {}
             /\ (req'.group_ids = Absent /\ resp'.status = "success")
                  => \E c \in classifications' \ classifications :
                        c.groups = AccessibleGroupIds(req'.user)
       ]_vars

\* a create with "group_ids": [] was accepted and its row has no groups
C28_Witness ==
    /\ req.op = "classification_post"
    /\ req.group_ids = Given({})
    /\ resp.status = "success"
    /\ \E c \in classifications : c.id = resp.data /\ c.groups = {}

\* C27: a persisted comment that has attachment bytes keeps non-null
\* attachment bytes in every step that does not delete it; a successful PUT
\* whose body carries "attachment_bytes": null leaves the stored bytes as
\* they were.
C27_AttachmentNeverRemoved ==
    [][ \A c \in comments :
          c.attachment_bytes # None
            => \A d \in comments' :
                  (d.kind = c.kind /\ d.id = c.id)
                    => /\ d.attachment_bytes # None
                       /\ (/\ req'.op = "comment_put"
                           /\ "attachment_bytes" \in DOMAIN req'.data
                           /\ req'.data.attachment_bytes = None)
                            => d.attachment_bytes = c.attachment_bytes
       ]_vars

\* an update that nulls the bytes of a comment with an attachment succeeded,
\* and the comment still has its attachment
C27_Witness ==
    /\ req.op = "comment_put"
    /\ "attachment_bytes" \in DOMAIN req.data
    /\ req.data.attachment_bytes = None
    /\ resp.status = "success"
    /\ \E c \in comments :
          /\ c.id = req.comment_id
          /\ c.kind = Lower(req.associated_resource_type)
          /\ c.attachment_bytes # None

\* C29: a comment update or delete leaves the persisted notifications as
\* they were and issues no FETCH_NOTIFICATIONS push, whatever the new text
\* mentions; a step that changes the notifications is a comment create.
C29_OnlyCreateNotifies ==
    [][ /\ req'.op \in {"comment_put", "comment_delete"}
            => /\ notifications' = notifications
               /\ \A i \in DOMAIN events' :
                     events'[i].action # "skyportal/FETCH_NOTIFICATIONS"
        /\ notifications' # notifications => req'.op = "comment_post"
       ]_vars

\* an update whose new text mentions opted-in users was committed
C29_Witness ==
    /\ req.op = "comment_put"
    /\ "text" \in DOMAIN req.data
    /\ users_mentioned(req.data.text, req.user) # {}
    /\ resp.status = "success"
    /\ \E c \in comments : c.id = req.comment_id /\ c.text = req.data.text
    /\ notifications = <<>>

\* the comment an attachment request names, when the caller can read it and
\* the path's resource id is the comment's
AttachmentTargets(r) ==
    {c \in comments : /\ c.kind = Lower(r.associated_resource_type)
                       /\ c.id = r.comment_id
                       /\ Accessible(r.user, c, "read")
                       /\ CommentResourceIdStr(c) = r.resource_id}

\* C24: an attachment download of a visible comment answers 'Comment has no
\* attachment' when the comment has none; otherwise it writes the raw decoded
\* bytes under a Content-Disposition attachment header when `download` is
\* absent, and answers the JSON body {commentId, attachment as text} when
\* the request supplies download=false.
C24_DownloadModes ==
    req.op = "comment_attachment_get"
      => \A c \in AttachmentTargets(req) :
            IF c.attachment_bytes = None
            THEN resp.msg = "Comment has no attachment"
            ELSE /\ ~req.download.present
                    => /\ resp.status = "raw"
                       /\ resp.data.body = B64Decode(c.attachment_bytes[1])
                       /\ resp.data.headers.disposition[1] = "attachment; filename="
                 /\ (req.download.present /\ req.download.val = "false")
                    => /\ resp.status = "success"
                       /\ resp.data.commentId = c.id

CommentOps ==
    {"comment_get", "comment_post", "comment_put", "comment_delete",
     "comment_attachment_get"}

\* the comment rows a step added, removed or changed
ChangedComments == (comments \ comments') \cup (comments' \ comments)

\* C25: every comment operation matches the path's resource kind without
\* regard to case against sources, spectra, gcn_event and shift and touches
\* rows of that kind only; with any other kind the response is an
\* invalid-input error (HTTP 400) and the store is left unchanged.
C25_KindDispatch ==
    [][ req'.op \in CommentOps
          => LET kind == Lower(req'.associated_resource_type)
             IN IF kind \in Kinds
                THEN \A c \in ChangedComments : c.kind = kind
                ELSE /\ resp'.status = "error"
                     /\ resp'.code = 400
                     /\ UNCHANGED <<comments, nextCommentId, notifications>>
       ]_vars

\* the operations on one comment, with the access mode each selects under
SingleCommentMode(r) ==
    CASE r.op = "comment_get" /\ r.comment_id # None -> Some("read")
      [] r.op = "comment_attachment_get" -> Some("read")
      [] r.op = "comment_put" -> Some("update")
      [] r.op = "comment_delete" -> Some("delete")
      [] OTHER -> None

\* the comment id a single-comment request names
SingleCommentId(r) ==
    IF r.op = "comment_get" THEN r.comment_id[1] ELSE r.comment_id

\* the rows of the path's kind with the request's comment id
NamedComments(r) ==
    {c \in comments : /\ c.kind = Lower(r.associated_resource_type)
                       /\ c.id = SingleCommentId(r)}

\* C30: a single-comment GET, PUT, DELETE or attachment GET whose comment id
\* names no row the caller can access in the operation's mode gets the same
\* response whether the row exists or not and whatever the path's resource
\* id is: HTTP 403 'Could not find any accessible comments', with nothing
\* written and nothing broadcast.
C30_InaccessibleLikeMissing ==
    [][ (/\ req'.op \in CommentOps
         /\ SingleCommentMode(req') # None
         /\ Lower(req'.associated_resource_type) \in Kinds
         /\ \A c \in NamedComments(req') :
               ~Accessible(req'.user, c, SingleCommentMode(req')[1]))
          => /\ resp'.status = "error"
             /\ resp'.code = 403
             /\ resp'.msg = "Could not find any accessible comments."
             /\ resp'.data = <<>>
             /\ events' = <<>>
             /\ UNCHANGED <<comments, nextCommentId, notifications>>
       ]_vars

\* a caller asked for the attachment of an existing comment shared only with
\* a group the caller is not in, under the comment's own resource id
C30_Witness ==
    /\ req.op = "comment_attachment_get"
    /\ resp.code = 403
    /\ \E c \in NamedComments(req) :
          /\ ~Accessible(req.user, c, "read")
          /\ CommentResourceIdStr(c) = req.resource_id

\* the response of a listing was just produced from the locals l
ListingAnswered(l) ==
    /\ listing = Some(l)
    /\ listing' = None
    /\ resp'.status = "success"

\* C23: a listing's totalMatches is the number of matches committed when
\* the count statement ran and its page is cut from the matches committed
\* when the page statement ran; the two agree when nothing was committed in
\* between, and nothing else ties them together.
C23_CountAndPageSeparate ==
    [][ \A l \in {listing[i] : i \in DOMAIN listing} :
          ListingAnswered(l)
            => LET r == l.request
                   at_count == {c \in l.seen : Accessible(r.user, c, "read")}
                   at_page == {c \in classifications : Accessible(r.user, c, "read")}
                   page == resp'.data.classifications
               IN /\ resp'.data.totalMatches = Cardinality(at_count)
                  /\ page = LimitOffset(SortById(at_page), NPerPage(r), 0)
                  /\ l.seen = classifications
                       => Len(page) = Min(NPerPage(r), resp'.data.totalMatches)
       ]_vars

\* a classification was committed between the two statements: the page
\* holds more rows than totalMatches reports
C23_Witness ==
    /\ req.op = "classification_list"
    /\ resp.status = "success"
    /\ Len(resp.data.classifications) > resp.data.totalMatches

\* C22: while a request's response is pending, the request has opened
\* exactly one database session, the request-scoped one.
C22_ExactlyOneSession ==
    ~Idle => sessions = <<RequestSession>>

\* the cron-job entries of a statistics report
CronJobEntries == {resp.data.cron_jobs[i] : i \in DOMAIN resp.data.cron_jobs}

\* C26: the statistics report succeeds and lists one cron-job entry per
\* distinct recorded script, each with the creation time, exit status and
\* output of a run of that script that no other run of it is newer than;
\* with no recorded runs the list is empty.
C26_LatestRunPerScript ==
    req.op = "stats"
      => /\ resp.status = "success"
         /\ Len(resp.data.cron_jobs) = Cardinality(CronJobScripts(cronJobRuns))
         /\ \A script \in CronJobScripts(cronJobRuns) :
               \E run \in LatestRuns(cronJobRuns, script) :
                  [created_at |-> run.created_at, exit_status |-> run.exit_status,
                   output |-> run.output]
                    \in {[created_at |-> e.summary.created_at,
                          exit_status |-> e.summary.exit_status,
                          output |-> e.output] : e \in CronJobEntries}
         /\ cronJobRuns = {} => resp.data.cron_jobs = <<>>
====
